---- MODULE Spec2Model ----
(***************************************************************************)
(* A model of the FreeCAD -> USD exporter (UsdExporter.py).                *)
(*                                                                         *)
(*   Spec          export(objects, filename): the recursive walk over the  *)
(*                 document objects and the calls it makes on the stage    *)
(*   SpecSafe      make_usd_safe, applied to bounded strings               *)
(*   SpecChildren  get_children, applied to bounded Group/OutList lists    *)
(*   SpecNormals   the two mesh routines' face-vertex normal computation   *)
(*                                                                         *)
(* Strings are sequences of one-character strings; a prim path is a        *)
(* sequence of prim names.                                                 *)
(***************************************************************************)
EXTENDS Integers, Sequences, FiniteSets, TLC

VARIABLES
    pc,          \* position of the running call
    \* ---- export ----
    objects,     \* export's `objects` argument (rebound to doc.Objects when empty)
    Group,       \* per document object: [has |-> attribute present, val |-> its objects]
    OutList,     \* per document object: sequence of objects
    ViewObject,  \* per document object: "None", "Visible" or "Hidden"
    ri,          \* position of `for obj in objects` (next root to export)
    stack,       \* active export_object_recursive frames, innermost last
    calls,       \* the calls made on the USD stage so far, in order
    error,       \* the exception that left export, or "none"
    \* ---- make_usd_safe ----
    name,        \* argument
    usd_name,    \* result
    \* ---- get_children ----
    gc_obj,      \* argument: [hasGroup, Group, hasOutList, OutList]
    children,    \* result
    \* ---- mesh routines ----
    routine,     \* "tessellated" or "original"
    faces,       \* tessellated: the faces of shape.tessellate; original: mesh.Facets
    usd_mesh     \* the attributes of the created mesh

vars == <<pc, objects, Group, OutList, ViewObject, ri, stack, calls, error,
          name, usd_name, gc_obj, children, routine, faces, usd_mesh>>

exportVars == <<objects, Group, OutList, ViewObject, ri, stack, calls, error>>
safeVars == <<name, usd_name>>
childrenVars == <<gc_obj, children>>
normalVars == <<routine, faces, usd_mesh>>

(***************************************************************************)
(* Bounds of the model.                                                    *)
(***************************************************************************)
MaxLen == 3        \* longest string given to make_usd_safe
MaxList == 3       \* longest Group / OutList given to get_children
NumObj == 3        \* objects that a Group / OutList may name
MaxFaces == 4      \* most faces of a mesh

Range(s) == {s[i] : i \in DOMAIN s}

SeqsUpTo(S, n) == UNION {[1..k -> S] : k \in 0..n}

(***************************************************************************)
(* make_usd_safe                                                           *)
(***************************************************************************)
\* the letters and digits that occur in the model's strings
Letters == {"a", "b", "Z", "G", "O", "j", "e", "c", "t", "S", "n", "m", "s", "h"}
Digits == {"3", "7"}
Whitespace == {" ", "\t"}

\* the characters of the strings given to make_usd_safe
Alphabet == {"a", "Z", "7", " ", "\t", "_", "-"}

\* the class [A-Za-z0-9_] of the regular expression
SafeChars == Letters \cup Digits \cup {"_"}

Placeholder == <<"O", "b", "j", "e", "c", "t">>

RECURSIVE lstrip(_)
lstrip(s) ==
    IF s = <<>> THEN s
    ELSE IF Head(s) \in Whitespace THEN lstrip(Tail(s)) ELSE s

RECURSIVE rstrip(_)
rstrip(s) ==
    IF s = <<>> THEN s
    ELSE IF s[Len(s)] \in Whitespace THEN rstrip(SubSeq(s, 1, Len(s) - 1)) ELSE s

\* str.strip()
strip(s) == rstrip(lstrip(s))

\* re.sub(r'[^A-Za-z0-9_]', '_', s)
sub_illegal(s) == [i \in DOMAIN s |-> IF s[i] \in SafeChars THEN s[i] ELSE "_"]

\* faulty variant: the leading-digit test is made on the last character
make_usd_safe_LastDigit(s) ==
    LET n1 == IF strip(s) = <<>> THEN Placeholder ELSE strip(s)
        n2 == sub_illegal(n1)
    IN  IF n2[Len(n2)] \in Digits THEN <<"_">> \o n2 ELSE n2

make_usd_safe(s) ==
    LET n1 == IF strip(s) = <<>> THEN Placeholder ELSE strip(s)
        n2 == sub_illegal(n1)
    IN  IF n2[1] \in Digits THEN <<"_">> \o n2 ELSE n2

(***************************************************************************)
(* get_children                                                            *)
(***************************************************************************)
\* one `for ch in lst: if ch not in seen: children.append(ch); seen.add(ch)`
\* loop; `seen` is always the set of elements of `children`
RECURSIVE append_unseen(_, _)
append_unseen(acc, lst) ==
    IF lst = <<>> THEN acc
    ELSE append_unseen(IF Head(lst) \in Range(acc) THEN acc ELSE Append(acc, Head(lst)),
                       Tail(lst))

\* faulty variant: the OutList loop starts from a fresh `seen`
get_children_FreshSeen(obj) ==
    LET c1 == IF obj.hasGroup /\ obj.Group # <<>>
              THEN append_unseen(<<>>, obj.Group) ELSE <<>>
    IN  IF obj.hasOutList THEN c1 \o append_unseen(<<>>, obj.OutList) ELSE c1

get_children(obj) ==
    LET c1 == IF obj.hasGroup /\ obj.Group # <<>>
              THEN append_unseen(<<>>, obj.Group) ELSE <<>>
    IN  IF obj.hasOutList THEN append_unseen(c1, obj.OutList) ELSE c1

(***************************************************************************)
(* The mesh routines: tessellated_mesh_with_normals_to_usd and             *)
(* original_mesh_with_normals_to_usd.                                      *)
(*                                                                         *)
(* Points and normals are integer vectors.  A face normal is kept as its   *)
(* direction (normalize() changes its length only), and the test           *)
(* dot(n1/|n1|, n2/|n2|) >= cos(10 degrees) is made on the squares:        *)
(* dot(n1,n2) >= 0 and dot(n1,n2)^2 >= cos^2(10 degrees) |n1|^2 |n2|^2.    *)
(* A face-vertex normal normalize(sum of normals) is kept as the sequence  *)
(* of the faces whose normals were added, in the order of the additions.   *)
(* Vertex indices are 0-based as in the code; faces are numbered from 1.   *)
(***************************************************************************)
Zero == <<0, 0, 0>>

vsub(a, b) == <<a[1] - b[1], a[2] - b[2], a[3] - b[3]>>

cross(a, b) == <<a[2] * b[3] - a[3] * b[2],
                 a[3] * b[1] - a[1] * b[3],
                 a[1] * b[2] - a[2] * b[1]>>

dot(a, b) == a[1] * b[1] + a[2] * b[2] + a[3] * b[3]

\* cos^2(radians(angle_threshold)) for angle_threshold = 10.0, as a fraction
CosSqNum == 9698
CosSqDen == 10000

\* dot >= cos_threshold, for the normalized n1 and n2 (both non-zero)
within_threshold(n1, n2) ==
    LET d == dot(n1, n2)
    IN  d >= 0 /\ d * d * CosSqDen >= CosSqNum * dot(n1, n1) * dot(n2, n2)

\* faceVertexIndices: the faces' index tuples, one after the other
RECURSIVE flatten(_)
flatten(ss) == IF ss = <<>> THEN <<>> ELSE Head(ss) \o flatten(Tail(ss))

\* the per-face normal of the tessellated routine
tess_face_normal(pts, f) ==
    IF Len(f) < 3 THEN Zero
    ELSE LET v0 == pts[f[1] + 1]
             v1 == pts[f[2] + 1]
             v2 == pts[f[3] + 1]
         IN  cross(vsub(v1, v0), vsub(v2, v0))

\* vertex_faces[vi]: fi once for every occurrence of vi in face fi
RECURSIVE incident_faces(_, _, _)
incident_faces(fs, vi, fi) ==
    IF fi > Len(fs) THEN <<>>
    ELSE [k \in 1..Cardinality({j \in DOMAIN fs[fi] : fs[fi][j] = vi}) |-> fi]
         \o incident_faces(fs, vi, fi + 1)

vertex_faces(npts, fs) == [vi \in 0..(npts - 1) |-> incident_faces(fs, vi, 1)]

\* faulty variant: a face is added when within the threshold of a face already
\* accepted against n_face (a smoothing group grown along the fan)
smooth_accum_Chained(fn, vf, fi, vi) ==
    LET Near(g) == fn[g] # Zero /\ within_threshold(fn[fi], fn[g])
        Test(g) == /\ fn[g] # Zero
                   /\ \/ Near(g)
                      \/ \E h \in Range(vf[vi]) : Near(h) /\ within_threshold(fn[h], fn[g])
    IN  SelectSeq(vf[vi], Test)

\* the faces added to accum for face fi at its vertex vi
smooth_accum(fn, vf, fi, vi) ==
    LET Test(g) == fn[g] # Zero /\ within_threshold(fn[fi], fn[g])
    IN  SelectSeq(vf[vi], Test)

ZeroNormal == [zero |-> TRUE, sum |-> <<>>]

\* faulty variant: a degenerate face pushes a single zero normal
face_vertex_block_OneZero(fs, fn, vf, fi) ==
    IF fn[fi] = Zero
    THEN <<ZeroNormal>>
    ELSE [j \in DOMAIN fs[fi] |->
             LET acc == smooth_accum(fn, vf, fi, fs[fi][j])
             IN  [zero |-> FALSE, sum |-> IF acc = <<>> THEN <<fi>> ELSE acc]]

\* the normals appended for face fi: zero vectors for a degenerate face, else
\* per vertex the normalized accum, or n_face when nothing was accumulated
\* (within 10 degrees of n_face a non-empty sum cannot cancel to length 0)
face_vertex_block(fs, fn, vf, fi) ==
    IF fn[fi] = Zero
    THEN [j \in DOMAIN fs[fi] |-> ZeroNormal]
    ELSE [j \in DOMAIN fs[fi] |->
             LET acc == smooth_accum(fn, vf, fi, fs[fi][j])
             IN  [zero |-> FALSE, sum |-> IF acc = <<>> THEN <<fi>> ELSE acc]]

\* face_vertex_normals, built face by face
face_vertex_normals(fs, fn, npts) ==
    LET vf == vertex_faces(npts, fs)
    IN  flatten([fi \in DOMAIN fs |-> face_vertex_block(fs, fn, vf, fi)])

\* the attributes both routines set on the created mesh
mesh_attributes(pts, fs, fn) ==
    [points |-> pts,
     faceVertexIndices |-> flatten(fs),
     faceVertexCounts |-> [fi \in DOMAIN fs |-> Len(fs[fi])],
     normals |-> face_vertex_normals(fs, fn, Len(pts))]

tessellated_mesh_with_normals_to_usd(pts, fs) ==
    mesh_attributes(pts, fs, [fi \in DOMAIN fs |-> tess_face_normal(pts, fs[fi])])

\* faces of the original routine: the facets' 1-based indices made 0-based
orig_faces(facets) ==
    [k \in DOMAIN facets |->
        [j \in DOMAIN facets[k].PointIndices |-> facets[k].PointIndices[j] - 1]]

\* face normals of the original routine: facet.Normal
orig_face_normals(facets) == [k \in DOMAIN facets |-> facets[k].Normal]

original_mesh_with_normals_to_usd(pts, facets) ==
    mesh_attributes(pts, orig_faces(facets), orig_face_normals(facets))

(***************************************************************************)
(* The geometry the mesh routines are applied to: six points, three of     *)
(* them on one line, and faces over them: a fan of three triangles around  *)
(* the edge 0-1 at about 0, 8 and 16 degrees, a zero-area triangle, a      *)
(* two-vertex face, a triangle at a right angle, a quad, a flipped face,   *)
(* a face naming one vertex twice.                                         *)
(***************************************************************************)
MeshPoints == << <<0, 0, 0>>, <<1, 0, 0>>, <<0, 7, 0>>, <<0, 7, 1>>, <<0, 7, 2>>, <<2, 0, 0>> >>

TessFaces == { <<0, 1, 2>>, <<0, 1, 3>>, <<0, 1, 4>>, <<0, 1, 5>>, <<0, 1>>,
               <<1, 2, 3>>, <<0, 1, 3, 2>>, <<0, 2, 1>>, <<0, 1, 2, 0>> }

\* a Mesh.Mesh holds triangles; a facet's Normal is that of its points
MeshFacets == { [PointIndices |-> <<f[1] + 1, f[2] + 1, f[3] + 1>>,
                 Normal |-> tess_face_normal(MeshPoints, f)] :
                f \in {t \in TessFaces : Len(t) = 3} }

(***************************************************************************)
(* export and export_object_recursive.                                     *)
(*                                                                         *)
(* The document holds three objects.  What varies is which objects are     *)
(* given to export, their Group and OutList, and their visibility:         *)
(*   1  a mesh feature, Label 'a b', with facets and a shape               *)
(*   2  a part feature, Label 'a_b', Mesh without facets, a valid shape    *)
(*   3  a group, empty Label, Name 'G', no geometry, no Placement          *)
(* Objects 1 and 2 have no Group attribute.                                *)
(***************************************************************************)
DocObjects == <<1, 2, 3>>
Objs == Range(DocObjects)

Label == << <<"a", " ", "b">>, <<"a", "_", "b">>, <<>> >>
Name == << <<"Z">>, <<"b">>, <<"G">> >>
HasGroup == <<FALSE, FALSE, TRUE>>
HasPlacement == <<TRUE, TRUE, FALSE>>
Mesh == <<"facets", "empty", "absent">>
Shape == <<"valid", "valid", "absent">>

MaxRoots == 2         \* most objects given to export
MaxEdges == 3         \* most entries of all Group and OutList lists together
RecursionLimit == 4   \* deepest nesting of export_object_recursive the interpreter allows

Scene == <<"S", "c", "e", "n", "e">>
ScenePath == <<Scene>>
MeshSuffix == <<"_", "m", "e", "s", "h">>

\* make_usd_safe(obj.Label or obj.Name)
usd_name_of(o) == make_usd_safe(IF Label[o] # <<>> THEN Label[o] ELSE Name[o])

\* the argument get_children reads from object o
children_of(o) ==
    get_children([hasGroup |-> Group[o].has, Group |-> Group[o].val,
                  hasOutList |-> TRUE, OutList |-> OutList[o]])

\* which branch of the geometry selection object o takes
geometry_of(o) ==
    IF Mesh[o] = "facets" THEN "Mesh"
    ELSE IF Shape[o] = "valid" THEN "Shape"
    ELSE "None"

\* a call on the stage
StageCall(op, path, o, src) == [op |-> op, path |-> path, obj |-> o, src |-> src]

NewFrame(o, parent) ==
    [obj |-> o, parent |-> parent, path |-> <<>>, children |-> <<>>, i |-> 0, pc |-> "enter"]

Top == stack[Len(stack)]
Pop == SubSeq(stack, 1, Len(stack) - 1)

\* Usd.Stage.CreateNew, UsdGeom.Xform.Define(stage, "/Scene")
ExportBegin ==
    /\ pc = "export_call"
    /\ objects' = IF objects = <<>> THEN DocObjects ELSE objects
    /\ calls' = <<StageCall("CreateNew", <<>>, 0, ""), StageCall("DefineXform", ScenePath, 0, "")>>
    /\ ri' = 1
    /\ pc' = "roots"
    /\ UNCHANGED <<Group, OutList, ViewObject, stack, error, safeVars, childrenVars, normalVars>>

\* for obj in objects: export_object_recursive(obj, root, stage)
ExportCallRoot ==
    /\ pc = "roots" /\ stack = <<>> /\ ri <= Len(objects)
    /\ stack' = <<NewFrame(objects[ri], ScenePath)>>
    /\ ri' = ri + 1
    /\ UNCHANGED <<pc, objects, Group, OutList, ViewObject, calls, error,
                   safeVars, childrenVars, normalVars>>

\* stage.GetRootLayer().Save()
ExportSave ==
    /\ pc = "roots" /\ stack = <<>> /\ ri > Len(objects)
    /\ calls' = Append(calls, StageCall("Save", <<>>, 0, ""))
    /\ pc' = "done"
    /\ UNCHANGED <<objects, Group, OutList, ViewObject, ri, stack, error,
                   safeVars, childrenVars, normalVars>>

\* the calls of export_object_recursive up to the geometry selection: the
\* Xform and, with a Placement, its translate and orient ops
xform_calls(o, this_path) ==
    <<StageCall("DefineXform", this_path, o, "")>>
    \o (IF HasPlacement[o] THEN <<StageCall("XformOps", this_path, o, "")>> ELSE <<>>)

\* the prim at this_path already carries translate and orient ops
has_xform_ops(this_path) ==
    \E k \in DOMAIN calls : calls[k].op = "XformOps" /\ calls[k].path = this_path

\* an exception leaves every frame and export: nothing catches it
Raise(exc) ==
    /\ error' = exc
    /\ pc' = "raised"
    /\ stack' = <<>>

\* export_object_recursive from its first line to the loop over the children
Enter ==
    /\ pc = "roots" /\ stack # <<>> /\ Top.pc = "enter"
    /\ LET o == Top.obj
           this_path == Append(Top.parent, usd_name_of(o))
           mesh_path == Append(this_path, usd_name_of(o) \o MeshSuffix)
           geo == IF geometry_of(o) = "None" THEN <<>>
                  ELSE <<StageCall("DefineMesh", mesh_path, o, geometry_of(o))>>
       IN  /\ calls' = calls \o xform_calls(o, this_path) \o geo
           /\ stack' = [stack EXCEPT ![Len(stack)] =
                           [@ EXCEPT !.path = this_path, !.children = children_of(o),
                                     !.i = 1, !.pc = "loop"]]
    /\ UNCHANGED <<pc, objects, Group, OutList, ViewObject, ri, error,
                   safeVars, childrenVars, normalVars>>

\* shape.tessellate raises inside tessellated_mesh_with_normals_to_usd
EnterTessellateRaises ==
    /\ pc = "roots" /\ stack # <<>> /\ Top.pc = "enter"
    /\ geometry_of(Top.obj) = "Shape"
    /\ calls' = calls \o xform_calls(Top.obj, Append(Top.parent, usd_name_of(Top.obj)))
    /\ Raise("TessellationError")
    /\ UNCHANGED <<objects, Group, OutList, ViewObject, ri, safeVars, childrenVars, normalVars>>

\* the prim at this_path exists with its ops (an earlier object took the same
\* name under this parent) and the stage refuses the second AddTranslateOp;
\* a stage that accepts it is the case of Enter
EnterXformOpRaises ==
    /\ pc = "roots" /\ stack # <<>> /\ Top.pc = "enter"
    /\ HasPlacement[Top.obj]
    /\ has_xform_ops(Append(Top.parent, usd_name_of(Top.obj)))
    /\ calls' = Append(calls, StageCall("DefineXform",
                                        Append(Top.parent, usd_name_of(Top.obj)), Top.obj, ""))
    /\ Raise("XformOpError")
    /\ UNCHANGED <<objects, Group, OutList, ViewObject, ri, safeVars, childrenVars, normalVars>>

\* `for child in get_children(obj)` is exhausted: the call returns
LoopReturn ==
    /\ pc = "roots" /\ stack # <<>> /\ Top.pc = "loop"
    /\ Top.i > Len(Top.children)
    /\ stack' = Pop
    /\ UNCHANGED <<pc, objects, Group, OutList, ViewObject, ri, calls, error,
                   safeVars, childrenVars, normalVars>>

\* `if vo and not vo.Visibility: continue`
LoopSkipInvisible ==
    /\ pc = "roots" /\ stack # <<>> /\ Top.pc = "loop"
    /\ Top.i <= Len(Top.children)
    /\ ViewObject[Top.children[Top.i]] = "Hidden"
    /\ stack' = [stack EXCEPT ![Len(stack)].i = @ + 1]
    /\ UNCHANGED <<pc, objects, Group, OutList, ViewObject, ri, calls, error,
                   safeVars, childrenVars, normalVars>>

\* export_object_recursive(child, this_xform, stage)
LoopRecurse ==
    /\ pc = "roots" /\ stack # <<>> /\ Top.pc = "loop"
    /\ Top.i <= Len(Top.children)
    /\ ViewObject[Top.children[Top.i]] # "Hidden"
    /\ Len(stack) < RecursionLimit
    /\ stack' = Append([stack EXCEPT ![Len(stack)].i = @ + 1],
                       NewFrame(Top.children[Top.i], Top.path))
    /\ UNCHANGED <<pc, objects, Group, OutList, ViewObject, ri, calls, error,
                   safeVars, childrenVars, normalVars>>

\* the same call with the interpreter's recursion limit reached
LoopRecursionError ==
    /\ pc = "roots" /\ stack # <<>> /\ Top.pc = "loop"
    /\ Top.i <= Len(Top.children)
    /\ ViewObject[Top.children[Top.i]] # "Hidden"
    /\ Len(stack) >= RecursionLimit
    /\ Raise("RecursionError")
    /\ UNCHANGED <<objects, Group, OutList, ViewObject, ri, calls, safeVars, childrenVars, normalVars>>

(***************************************************************************)
(* Idle values of the variables a specification does not use.              *)
(***************************************************************************)
IdleExport ==
    /\ objects = <<>> /\ Group = <<>> /\ OutList = <<>> /\ ViewObject = <<>>
    /\ ri = 0 /\ stack = <<>> /\ calls = <<>> /\ error = "none"
IdleSafe == name = <<>> /\ usd_name = <<>>
IdleChildren == gc_obj = <<>> /\ children = <<>>
IdleNormals == routine = "" /\ faces = <<>> /\ usd_mesh = <<>>

(***************************************************************************)
(* Spec: export on every document within the bounds.                       *)
(***************************************************************************)
\* an entry of a Group or OutList list: <<attribute, parent, child>>
EdgeEntries ==
    {<<"OutList", p, c>> : p \in Objs, c \in Objs}
    \cup {<<"Group", p, c>> : p \in {o \in Objs : HasGroup[o]}, c \in Objs}

\* the list `attr` of object p made of the entries es, in their order
RECURSIVE list_of(_, _, _)
list_of(es, attr, p) ==
    IF es = <<>> THEN <<>>
    ELSE (IF Head(es)[1] = attr /\ Head(es)[2] = p THEN <<Head(es)[3]>> ELSE <<>>)
         \o list_of(Tail(es), attr, p)

\* the sequences of distinct objects
Selections == {sel \in SeqsUpTo(Objs, MaxRoots) :
                  \A i, j \in DOMAIN sel : i # j => sel[i] # sel[j]}

Init ==
    /\ pc = "export_call"
    /\ objects \in Selections
    /\ \E es \in SeqsUpTo(EdgeEntries, MaxEdges) :
          /\ Group = [o \in Objs |-> [has |-> HasGroup[o], val |-> list_of(es, "Group", o)]]
          /\ OutList = [o \in Objs |-> list_of(es, "OutList", o)]
    /\ ViewObject \in [Objs -> {"None", "Visible", "Hidden"}]
    /\ ri = 0 /\ stack = <<>> /\ calls = <<>> /\ error = "none"
    /\ IdleSafe /\ IdleChildren /\ IdleNormals

Next ==
    \/ ExportBegin
    \/ ExportCallRoot
    \/ ExportSave
    \/ Enter
    \/ EnterTessellateRaises
    \/ EnterXformOpRaises
    \/ LoopReturn
    \/ LoopSkipInvisible
    \/ LoopRecurse
    \/ LoopRecursionError

Spec == Init /\ [][Next]_vars

(***************************************************************************)
(* SpecSafe: make_usd_safe on every string of at most MaxLen characters.   *)
(***************************************************************************)
InitSafe ==
    /\ pc = "safe_call"
    /\ name \in SeqsUpTo(Alphabet, MaxLen)
    /\ usd_name = <<>>
    /\ IdleExport /\ IdleChildren /\ IdleNormals

CallMakeUsdSafe ==
    /\ pc = "safe_call"
    /\ usd_name' = make_usd_safe(name)
    /\ pc' = "safe_return"
    /\ UNCHANGED <<name, exportVars, childrenVars, normalVars>>

NextSafe == CallMakeUsdSafe

SpecSafe == InitSafe /\ [][NextSafe]_vars

(***************************************************************************)
(* SpecChildren: get_children on every pair of lists of at most MaxList    *)
(* objects, the attributes present or missing.                             *)
(***************************************************************************)
InitChildren ==
    /\ pc = "children_call"
    /\ \E hg, ho \in BOOLEAN :
       \E g, o \in SeqsUpTo(1..NumObj, MaxList) :
          /\ (~hg => g = <<>>) /\ (~ho => o = <<>>)
          /\ gc_obj = [hasGroup |-> hg, Group |-> g, hasOutList |-> ho, OutList |-> o]
    /\ children = <<>>
    /\ IdleExport /\ IdleSafe /\ IdleNormals

CallGetChildren ==
    /\ pc = "children_call"
    /\ children' = get_children(gc_obj)
    /\ pc' = "children_return"
    /\ UNCHANGED <<gc_obj, exportVars, safeVars, normalVars>>

NextChildren == CallGetChildren

SpecChildren == InitChildren /\ [][NextChildren]_vars

(***************************************************************************)
(* SpecNormals: either mesh routine on every sequence of at most MaxFaces  *)
(* faces.                                                                  *)
(***************************************************************************)
InitNormals ==
    /\ pc = "mesh_call"
    /\ \/ routine = "tessellated" /\ faces \in SeqsUpTo(TessFaces, MaxFaces)
       \/ routine = "original" /\ faces \in SeqsUpTo(MeshFacets, MaxFaces)
    /\ usd_mesh = <<>>
    /\ IdleExport /\ IdleSafe /\ IdleChildren

CallTessellated ==
    /\ pc = "mesh_call" /\ routine = "tessellated"
    /\ usd_mesh' = tessellated_mesh_with_normals_to_usd(MeshPoints, faces)
    /\ pc' = "mesh_return"
    /\ UNCHANGED <<routine, faces, exportVars, safeVars, childrenVars>>

CallOriginal ==
    /\ pc = "mesh_call" /\ routine = "original"
    /\ usd_mesh' = original_mesh_with_normals_to_usd(MeshPoints, faces)
    /\ pc' = "mesh_return"
    /\ UNCHANGED <<routine, faces, exportVars, safeVars, childrenVars>>

NextNormals == CallTessellated \/ CallOriginal

SpecNormals == InitNormals /\ [][NextNormals]_vars

(***************************************************************************)
(* Claims about make_usd_safe (SpecSafe).                                  *)
(***************************************************************************)
\* C8: make_usd_safe is total and idempotent: its result is non-empty, holds
\* only characters of [A-Za-z0-9_], does not start with a digit, is mapped to
\* itself by make_usd_safe, and is 'Object' for an empty or whitespace-only
\* argument.
C8_SafeIdempotent ==
    pc = "safe_return" =>
        /\ usd_name # <<>>
        /\ Range(usd_name) \subseteq SafeChars
        /\ usd_name[1] \notin Digits
        /\ make_usd_safe(usd_name) = usd_name
        /\ (Range(name) \subseteq Whitespace => usd_name = Placeholder)

\* a name with leading whitespace, then a digit, and an illegal character:
\* stripped, substituted and prefixed
C8_Witness ==
    /\ pc = "safe_return"
    /\ Len(name) = 3
    /\ name[1] \in Whitespace /\ name[2] \in Digits /\ name[3] \notin SafeChars
    /\ usd_name = <<"_", name[2], "_">>

(***************************************************************************)
(* Claims about get_children (SpecChildren).                               *)
(***************************************************************************)
\* position of the first occurrence of x in s
FirstIndex(s, x) == CHOOSE k \in DOMAIN s : s[k] = x /\ \A m \in 1..(k - 1) : s[m] # x

\* C6: get_children returns Group's elements in order with repeats removed,
\* followed by the OutList elements not already included, in OutList order
\* with repeats removed: every element of either list occurs exactly once, no
\* other element occurs, and a missing or empty Group contributes nothing.
C6_MergedChildren ==
    pc = "children_return" =>
        LET cat == gc_obj.Group \o gc_obj.OutList
        IN  /\ Range(children) = Range(cat)
            /\ \A i, j \in DOMAIN children : i # j => children[i] # children[j]
            /\ \A i, j \in DOMAIN children :
                  i < j => FirstIndex(cat, children[i]) < FirstIndex(cat, children[j])
            /\ (~gc_obj.hasGroup \/ gc_obj.Group = <<>> =>
                    Range(children) = Range(gc_obj.OutList))

\* an object in both lists, a repeat inside Group, and an OutList-only object
C6_Witness ==
    /\ pc = "children_return"
    /\ gc_obj.hasGroup /\ gc_obj.hasOutList
    /\ Cardinality(Range(gc_obj.Group)) < Len(gc_obj.Group)
    /\ Range(gc_obj.Group) \cap Range(gc_obj.OutList) # {}
    /\ Range(gc_obj.OutList) \ Range(gc_obj.Group) # {}
    /\ Len(children) = NumObj

(***************************************************************************)
(* Claims about the mesh routines (SpecNormals).                           *)
(***************************************************************************)
\* the faces and face normals the called routine works on
InFaces == IF routine = "tessellated" THEN faces ELSE orig_faces(faces)
InNormals ==
    IF routine = "tessellated"
    THEN [fi \in DOMAIN faces |-> tess_face_normal(MeshPoints, faces[fi])]
    ELSE orig_face_normals(faces)

\* number of face-vertex pairs before face fi in the index stream
RECURSIVE Offset(_)
Offset(fi) == IF fi = 1 THEN 0 ELSE Offset(fi - 1) + usd_mesh.faceVertexCounts[fi - 1]

\* the face of the k-th face-vertex pair
FaceAt(k) ==
    CHOOSE fi \in DOMAIN InFaces :
        Offset(fi) < k /\ k <= Offset(fi) + usd_mesh.faceVertexCounts[fi]

\* angle between two non-zero normals at most 10 degrees
AngleWithin(a, b) == dot(a, b) >= 0 /\ 10000 * dot(a, b) * dot(a, b) >= 9698 * dot(a, a) * dot(b, b)

\* C9: in both routines, for every non-degenerate face f and vertex v of f,
\* the faces whose normals are summed into the normal of (f, v) are exactly
\* the non-degenerate faces incident to v within the threshold of f's own
\* normal, f included (a per-pair test against f, not transitive); a
\* degenerate face contributes to no sum.
C9_Contributors ==
    pc = "mesh_return" =>
        \A k \in DOMAIN usd_mesh.normals :
            LET f == FaceAt(k)
                v == usd_mesh.faceVertexIndices[k]
                summed == Range(usd_mesh.normals[k].sum)
            IN  /\ \A g \in summed : InNormals[g] # Zero
                /\ InNormals[f] # Zero =>
                       summed = {g \in DOMAIN InFaces :
                                    /\ v \in Range(InFaces[g])
                                    /\ InNormals[g] # Zero
                                    /\ AngleWithin(InNormals[f], InNormals[g])}

\* three faces A, B, C around one vertex, A-B and B-C within the threshold and
\* A-C not, and a degenerate face at the same vertex: A's normal there sums A
\* and B, B's sums all three, C's sums B and C
C9_Witness ==
    /\ pc = "mesh_return"
    /\ routine = "original"
    /\ \E d \in DOMAIN InFaces : InNormals[d] = Zero /\ 0 \in Range(InFaces[d])
    /\ \E a, b, c \in DOMAIN usd_mesh.normals :
          /\ Range(usd_mesh.normals[a].sum) = {FaceAt(a), FaceAt(b)}
          /\ Range(usd_mesh.normals[c].sum) = {FaceAt(b), FaceAt(c)}
          /\ Range(usd_mesh.normals[b].sum) = {FaceAt(a), FaceAt(b), FaceAt(c)}
          /\ Cardinality({FaceAt(a), FaceAt(b), FaceAt(c)}) = 3
          /\ usd_mesh.faceVertexIndices[a] = 0
          /\ usd_mesh.faceVertexIndices[b] = 0
          /\ usd_mesh.faceVertexIndices[c] = 0

\* C10: in both routines the normals are parallel to the face-vertex index
\* stream: as many as faceVertexIndices (the sum of faceVertexCounts), the
\* k-th one belonging to the face and vertex at position k; a degenerate face
\* emits one zero vector per vertex it references.
C10_ParallelNormals ==
    pc = "mesh_return" =>
        LET n == Len(InFaces)
            total == IF n = 0 THEN 0 ELSE Offset(n) + usd_mesh.faceVertexCounts[n]
        IN  /\ Len(usd_mesh.faceVertexIndices) = total
            /\ Len(usd_mesh.normals) = Len(usd_mesh.faceVertexIndices)
            /\ \A k \in DOMAIN usd_mesh.normals :
                  LET f == FaceAt(k)
                      nk == usd_mesh.normals[k]
                  IN  /\ usd_mesh.faceVertexIndices[k] = InFaces[f][k - Offset(f)]
                      /\ InNormals[f] = Zero => nk = ZeroNormal
                      /\ InNormals[f] # Zero =>
                            /\ ~nk.zero
                            /\ f \in Range(nk.sum)
                            /\ \A g \in Range(nk.sum) :
                                  usd_mesh.faceVertexIndices[k] \in Range(InFaces[g])

\* a two-vertex face between two proper triangles: 3 + 2 + 3 normals
C10_Witness ==
    /\ pc = "mesh_return"
    /\ routine = "tessellated"
    /\ Len(faces) = 3
    /\ \E i, j \in DOMAIN faces :
          /\ i < j /\ j < 3
          /\ InNormals[i] # Zero /\ InNormals[j] = Zero /\ InNormals[3] # Zero
          /\ Len(faces[j]) = 2
    /\ Len(usd_mesh.normals) = 8
    /\ usd_mesh.normals[4] = ZeroNormal /\ usd_mesh.normals[5] = ZeroNormal
    /\ ~usd_mesh.normals[6].zero

(***************************************************************************)
(* Claims about export (Spec).                                             *)
(***************************************************************************)
\* the Xform definitions made for document objects, as positions of calls
XformDefs == {k \in DOMAIN calls : calls[k].op = "DefineXform" /\ calls[k].obj \in Objs}
MeshDefs == {k \in DOMAIN calls : calls[k].op = "DefineMesh"}

\* number of times export_object_recursive was entered for object o
Visits(o) == Cardinality({k \in XformDefs : calls[k].obj = o})

Visible(o) == ViewObject[o] # "Hidden"

\* the objects reached from the visible roots over edges to visible children
RECURSIVE ReachFrom(_)
ReachFrom(S) ==
    LET T == S \cup {c \in Objs : Visible(c) /\ \E o \in S : c \in Range(children_of(o))}
    IN  IF T = S THEN S ELSE ReachFrom(T)
RootsGiven == IF pc = "export_call" /\ objects = <<>> THEN Objs ELSE Range(objects)
Reachable == ReachFrom({r \in RootsGiven : Visible(r)})

\* C1: export terminates on every object graph, cyclic ones included:
\* export_object_recursive never re-enters an object that is on its active
\* recursion path (the edge is skipped), so the recursion never runs into
\* the interpreter's limit.
C1_NoReentry ==
    /\ \A i, j \in DOMAIN stack : i # j => stack[i].obj # stack[j].obj
    /\ error # "RecursionError"

\* C2: when an export call has completed, every object reachable from the
\* given roots over visible edges has been visited exactly once, and no
\* object has been exported twice.
C2_VisitedOnce ==
    pc = "done" =>
        /\ \A o \in Objs : Visits(o) <= 1
        /\ \A o \in Reachable : Visits(o) = 1

\* C3: an invisible object, a root given to export included, gets no scene
\* node, so no node of its subtree is created through it; its visible
\* siblings are still exported.
C3_InvisibleAbsent ==
    /\ \A k \in XformDefs \cup MeshDefs : Visible(calls[k].obj)
    /\ pc = "done" =>
          \A r \in Range(objects) :
              Visible(r) => \E k \in XformDefs :
                               calls[k].obj = r /\ calls[k].path = Append(ScenePath, usd_name_of(r))

\* C4: a tessellator failure is contained at its node: it never leaves
\* export, the traversal goes on and the stage is saved at the end.
C4_TessellationContained ==
    /\ error # "TessellationError"
    /\ pc \in {"done", "raised"} => \E k \in DOMAIN calls : calls[k].op = "Save"

\* C5: among the children of one scene node the sanitized names are pairwise
\* distinct: two distinct objects never write to the same path, so the first
\* one's transform and mesh are not overwritten or extended by a later one.
C5_SiblingPathsDistinct ==
    \A j, k \in DOMAIN calls :
        /\ calls[j].op \in {"DefineXform", "XformOps", "DefineMesh"}
        /\ calls[j].op = calls[k].op
        /\ calls[j].path = calls[k].path
        => calls[j].obj = calls[k].obj

\* C7: every visited object takes its geometry by priority (facets: the mesh,
\* else a valid shape: tessellated, else none), gets exactly one Xform and
\* at most one mesh named <name>_mesh under it, and in all three cases its
\* children are still traversed.
C7_GeometryPriority ==
    /\ \A k \in MeshDefs :
          /\ calls[k].src = geometry_of(calls[k].obj)
          /\ \E j \in XformDefs :
                /\ j < k /\ calls[j].obj = calls[k].obj
                /\ calls[k].path = Append(calls[j].path, usd_name_of(calls[k].obj) \o MeshSuffix)
    /\ \A j, k \in MeshDefs : calls[j].path = calls[k].path => j = k
    /\ \A j, k \in XformDefs : calls[j].path = calls[k].path => j = k
    /\ pc \in {"done", "raised"} =>
          \A k \in XformDefs :
              /\ geometry_of(calls[k].obj) # "None" =>
                    \E m \in MeshDefs : calls[m].obj = calls[k].obj /\ m > k
              /\ \A c \in Range(children_of(calls[k].obj)) :
                    Visible(c) => \E m \in XformDefs :
                                     /\ calls[m].obj = c
                                     /\ calls[m].path = Append(calls[k].path, usd_name_of(c))

====
